---- MODULE Spec2Model ----
(***************************************************************************)
(* Model of anymail/backends/mailgun.py: the MailgunPayload setters, the   *)
(* endpoint computation and MailgunBackend.parse_recipient_status.         *)
(*                                                                         *)
(* Python values are tagged records, one field name per Python type, so    *)
(* that values of different types can be compared:                         *)
(*   None -> [none |-> TRUE]        str  -> [str |-> <<characters>>]        *)
(*   int  -> [int |-> n]            bool -> [bool |-> b]                    *)
(*   list -> [list |-> <<values>>]  dict -> [dict |-> [key |-> value]]      *)
(*   datetime -> [datetime |-> n]   object() -> [object |-> n]              *)
(* Text is a sequence of one-character strings, so that split, startswith  *)
(* and formatting are computed character by character.  Dictionary keys    *)
(* (field names) are TLA+ strings.                                         *)
(***************************************************************************)
EXTENDS Integers, Sequences, FiniteSets, Bags, TLC

VARIABLES
    data,            \* MailgunPayload.data: field name -> value
    files,           \* MailgunPayload.files: sequence of (field, part)
    sender_domain,   \* MailgunPayload.sender_domain
    all_recipients,  \* MailgunPayload.all_recipients
    notices,         \* features reported through unsupported_feature
    error,           \* exception that escaped a setter, PyNone if none
    endpoint,        \* outcome of get_api_endpoint
    response,        \* the response handed to parse_recipient_status
    status,          \* outcome of parse_recipient_status
    passed,          \* bag of the addresses handed to set_recipients
    override,        \* sender_domain of the last esp_extra that gave one
    ncalls           \* number of setter calls made on the payload

vars == <<data, files, sender_domain, all_recipients, notices, error,
          endpoint, response, status, passed, override, ncalls>>

---------------------------------------------------------------------------
(* Bounds *)

MaxCalls == 3
MaxRecipients == 1

---------------------------------------------------------------------------
(* Python values *)

PyNone == [none |-> TRUE]
PyStr(s) == [str |-> s]
PyInt(n) == [int |-> n]
PyBool(b) == [bool |-> b]
PyList(xs) == [list |-> xs]
PyDict(d) == [dict |-> d]
PyDatetime(n) == [datetime |-> n]
PyObject(n) == [object |-> n]

IsNone(v) == "none" \in DOMAIN v
IsStr(v) == "str" \in DOMAIN v
IsInt(v) == "int" \in DOMAIN v
IsBool(v) == "bool" \in DOMAIN v
IsList(v) == "list" \in DOMAIN v
IsDict(v) == "dict" \in DOMAIN v
IsDatetime(v) == "datetime" \in DOMAIN v

EmptyDict == [k \in {} |-> PyNone]

NotCalled == [notcalled |-> TRUE]
Returned(v) == [returned |-> v]
Raised(exc, msg) == [raised |-> exc, message |-> msg]

IsReturned(r) == "returned" \in DOMAIN r
IsRaised(r) == "raised" \in DOMAIN r

---------------------------------------------------------------------------
(* Text *)

\* str.startswith(prefix)
startswith(s, prefix) ==
    /\ Len(prefix) <= Len(s)
    /\ \A i \in 1..Len(prefix) : s[i] = prefix[i]

\* str.split(sep) for a one-character separator: the list of the pieces
\* between the separators, empty pieces included.
RECURSIVE split(_, _)
split(s, sep) ==
    IF \A i \in 1..Len(s) : s[i] # sep
    THEN <<s>>
    ELSE LET i == CHOOSE j \in 1..Len(s) :
                      s[j] = sep /\ \A k \in 1..(j - 1) : s[k] # sep
         IN  <<SubSeq(s, 1, i - 1)>> \o split(SubSeq(s, i + 1, Len(s)), sep)

\* ", ".join(texts)
RECURSIVE join(_)
join(texts) ==
    IF texts = <<>> THEN <<>>
    ELSE IF Len(texts) = 1 THEN texts[1]
    ELSE texts[1] \o <<",", " ">> \o join(Tail(texts))

\* str(email) of a parsed address: "Display Name <local@domain>" or the
\* bare "local@domain".
address_str(email) ==
    IF email.name = <<>> THEN email.email
    ELSE email.name \o <<" ", "<">> \o email.email \o <<">">>

\* [str(email) for email in emails]
RECURSIVE address_strs(_)
address_strs(emails) ==
    IF emails = <<>> THEN <<>>
    ELSE <<PyStr(address_str(Head(emails)))>> \o address_strs(Tail(emails))

RECURSIVE address_texts(_)
address_texts(emails) ==
    IF emails = <<>> THEN <<>>
    ELSE <<address_str(Head(emails))>> \o address_texts(Tail(emails))

\* "%s" % value for a text value
format_s(v) == v.str

Queued == <<"Q", "u", "e", "u", "e", "d">>
SlashMessages == <<"/", "m", "e", "s", "s", "a", "g", "e", "s">>

---------------------------------------------------------------------------
(* JSON serialization (BasePayload.serialize_json) *)

Digit(n) == <<"0", "1", "2", "3", "4", "5", "6", "7", "8", "9">>[n + 1]

RECURSIVE Digits(_)
Digits(n) == IF n < 10 THEN <<Digit(n)>> ELSE Digits(n \div 10) \o <<Digit(n % 10)>>

RECURSIVE json_escape(_)
json_escape(s) ==
    IF s = <<>> THEN <<>>
    ELSE (IF Head(s) \in {"\"", "\\"} THEN <<"\\", Head(s)>> ELSE <<Head(s)>>)
         \o json_escape(Tail(s))

json_string(s) == <<"\"">> \o json_escape(s) \o <<"\"">>

RECURSIVE KeySeq(_)
KeySeq(keys) ==
    IF keys = {} THEN <<>>
    ELSE LET k == CHOOSE x \in keys : TRUE IN <<k>> \o KeySeq(keys \ {k})

\* Dictionary keys of the metadata values modelled are one character long.
KeyText(k) == <<k>>

RECURSIVE json_dumps(_)
RECURSIVE json_items(_)
RECURSIVE json_members(_, _)
json_items(xs) ==
    IF xs = <<>> THEN <<>>
    ELSE IF Len(xs) = 1 THEN json_dumps(xs[1])
    ELSE json_dumps(xs[1]) \o <<",">> \o json_items(Tail(xs))
json_members(d, ks) ==
    IF ks = <<>> THEN <<>>
    ELSE json_string(KeyText(Head(ks))) \o <<":">> \o json_dumps(d[Head(ks)])
         \o (IF Len(ks) = 1 THEN <<>> ELSE <<",">> \o json_members(d, Tail(ks)))
json_dumps(v) ==
    IF IsStr(v) THEN json_string(v.str)
    ELSE IF IsInt(v) THEN (IF v.int < 0 THEN <<"-">> \o Digits(0 - v.int) ELSE Digits(v.int))
    ELSE IF IsBool(v) THEN (IF v.bool THEN <<"t", "r", "u", "e">>
                                      ELSE <<"f", "a", "l", "s", "e">>)
    ELSE IF IsNone(v) THEN <<"n", "u", "l", "l">>
    ELSE IF IsList(v) THEN <<"[">> \o json_items(v.list) \o <<"]">>
    ELSE <<"{">> \o json_members(v.dict, KeySeq(DOMAIN v.dict)) \o <<"}">>

RECURSIVE serializable(_)
serializable(v) ==
    \/ IsStr(v) \/ IsInt(v) \/ IsBool(v) \/ IsNone(v)
    \/ IsList(v) /\ \A i \in 1..Len(v.list) : serializable(v.list[i])
    \/ IsDict(v) /\ \A k \in DOMAIN v.dict : serializable(v.dict[k])

\* self.serialize_json(value): the JSON text, or AnymailSerializationError
serialize_json(v) ==
    IF serializable(v) THEN Returned(json_dumps(v))
    ELSE Raised("AnymailSerializationError", "not serializable")

\* rfc2822date(datetime)
rfc2822date(dt) == <<"D", "a", "t", "e">> \o Digits(dt.datetime)

---------------------------------------------------------------------------
(* Dictionaries *)

DictSet(d, k, v) == [f \in DOMAIN d \cup {k} |-> IF f = k THEN v ELSE d[f]]

\* d.update(e)
DictUpdate(d, e) == [f \in DOMAIN d \cup DOMAIN e |-> IF f \in DOMAIN e THEN e[f] ELSE d[f]]

\* d without key k
DictRemove(d, k) == [f \in DOMAIN d \ {k} |-> d[f]]

\* d.pop(k, default): the value removed
DictPopValue(d, k, default) == IF k \in DOMAIN d THEN d[k] ELSE default

---------------------------------------------------------------------------
(* Inputs *)

Address(name, email) == [name |-> name, email |-> email]

\* from_email values: a plain address, one with a display name, one with no
\* "@", one with an empty domain part, one with two "@".
FromEmails ==
    { Address(<<>>, <<"a", "@", "x">>),
      Address(<<"N">>, <<"b", "@", "y">>),
      Address(<<>>, <<"a">>),
      Address(<<>>, <<"a", "@">>),
      Address(<<>>, <<"a", "@", "x", "@", "y">>) }

Recipients ==
    { Address(<<>>, <<"b", "@", "x">>),
      Address(<<"N">>, <<"c", "@", "x">>) }

RecipientTypes == {"to", "cc", "bcc"}

RecipientLists == UNION { [1..n -> Recipients] : n \in 0..MaxRecipients }

Subjects == { <<"s">> }

ReplyTos ==
    { <<>>,
      <<Address(<<>>, <<"r", "@", "x">>), Address(<<"N">>, <<"c", "@", "x">>)>> }

Headers ==
    { EmptyDict,
      [k \in {"X-A", "X-B"} |-> PyStr(<<"v">>)] }

Bodies == { <<"p">>, <<"q">> }

Attachments ==
    { [inline |-> FALSE, name |-> <<"f">>, content |-> <<"c">>, mimetype |-> <<"t">>],
      [inline |-> TRUE, name |-> <<"g">>, content |-> <<"c">>, mimetype |-> <<"i">>] }

\* Metadata values: texts (empty, plain, holding a quote, looking like a
\* number), numbers, a boolean, None, a list, a dict, and an object that
\* json cannot serialize.
MetaValues ==
    { PyStr(<<"h", "i">>), PyStr(<<>>), PyStr(<<"\"">>), PyStr(<<"4", "2">>),
      PyInt(42), PyInt(-7), PyBool(TRUE), PyNone,
      PyList(<<PyInt(1), PyStr(<<"a">>)>>),
      PyDict([k \in {"a"} |-> PyInt(1)]),
      PyObject(1) }

Item(k, v) == [key |-> k, value |-> v]

\* metadata dictionaries, as the sequence of their items in iteration order
Metadatas ==
    { <<>> }
    \cup { <<Item("k", v)>> : v \in MetaValues }
    \cup { <<Item("k", PyStr(<<"h", "i">>)), Item("j", PyInt(42))>>,
           <<Item("k", PyInt(42)), Item("j", PyObject(1)), Item("i", PyInt(1))>> }

SendAts == { PyDatetime(0), PyStr(<<"n", "o", "w">>) }

Tags == { <<PyStr(<<"t">>)>> }

\* sender domains given through esp_extra, the empty text included
OverrideDomains == { <<"o">>, <<>> }

EspExtras ==
    { EmptyDict,
      [k \in {"o:testmode"} |-> PyStr(<<"y">>)],
      [k \in {"sender_domain", "from"} |->
          IF k = "from" THEN PyStr(<<"z", "@", "w">>) ELSE PyStr(<<"o">>)] }
    \cup { [k \in {"sender_domain"} |-> PyStr(d)] : d \in OverrideDomains }

Obj(id, message) == PyDict([k \in {"id", "message"} |-> IF k = "id" THEN id ELSE message])

MsgId == PyStr(<<"M", "1">>)

\* Responses: [json |-> the value the body deserializes to], or
\* [invalid |-> TRUE] for a body that is not JSON.
Responses ==
    { [json |-> Obj(MsgId, PyStr(Queued \o <<".">>))],
      [json |-> Obj(MsgId, PyStr(Queued))],
      [json |-> Obj(MsgId, PyStr(<<"R", "e", "j">>))],
      [json |-> Obj(MsgId, PyStr(<<"Q", "u", "e", "u", "e">>))],
      [json |-> Obj(MsgId, PyStr(<<"q", "u", "e", "u", "e", "d">>))],
      [json |-> Obj(MsgId, PyStr(<<"x">> \o Queued))],
      [json |-> Obj(MsgId, PyStr(<<>>))],
      [json |-> Obj(MsgId, PyInt(42))],
      [json |-> Obj(MsgId, PyNone)],
      [json |-> Obj(PyInt(42), PyStr(Queued))],
      [json |-> PyDict([k \in {"message"} |-> PyStr(Queued)])],
      [json |-> PyDict([k \in {"message"} |-> PyStr(<<"R", "e", "j">>)])],
      [json |-> PyDict([k \in {"id"} |-> MsgId])],
      [json |-> PyList(<<>>)],
      [json |-> PyNone],
      [invalid |-> TRUE] }

---------------------------------------------------------------------------
(* MailgunPayload *)

Init ==
    /\ data = EmptyDict
    /\ files = <<>>
    /\ sender_domain = PyNone
    /\ all_recipients = <<>>
    /\ notices = <<>>
    /\ error = PyNone
    /\ endpoint = NotCalled
    /\ response = PyNone
    /\ status = NotCalled
    /\ passed = EmptyBag
    /\ override = PyNone
    /\ ncalls = 0

\* The payload is still being built: no setter raised, and the request has
\* not been made yet.
Building ==
    /\ error = PyNone
    /\ endpoint = NotCalled
    /\ status = NotCalled
    /\ ncalls < MaxCalls

RECURSIVE SeqToBag(_)
SeqToBag(xs) ==
    IF xs = <<>> THEN EmptyBag ELSE SetToBag({Head(xs)}) (+) SeqToBag(Tail(xs))

\* get_api_endpoint: the value returned, or the error raised
api_endpoint(sd) ==
    IF sd = PyNone
    THEN Raised("AnymailError", "Cannot call Mailgun unknown sender domain")
    ELSE Returned(PyStr(format_s(sd) \o SlashMessages))

get_api_endpoint ==
    /\ error = PyNone
    /\ endpoint = NotCalled
    /\ status = NotCalled
    /\ endpoint' = api_endpoint(sender_domain)
    /\ UNCHANGED <<override, data, files, sender_domain, all_recipients, notices, error,
                   response, status, passed, ncalls>>

\* Mutant of from_email_domain: the domain is inferred even when a sender
\* domain is already set.
from_email_domain_always(sd, email) ==
    LET parts == split(email.email, "@")
    IN  IF Len(parts) = 2 THEN PyStr(parts[2]) ELSE sd

\* Mutant of from_email_domain: email.email.partition("@")[2], which is the
\* empty text for an address without "@".
from_email_domain_partition(sd, email) ==
    IF sd = PyNone
    THEN LET parts == split(email.email, "@")
         IN  IF Len(parts) = 1 THEN PyStr(<<>>)
             ELSE PyStr(SubSeq(email.email, Len(parts[1]) + 2, Len(email.email)))
    ELSE sd

\* set_from_email: the sender domain after the call
from_email_domain(sd, email) ==
    IF sd = PyNone
    THEN LET parts == split(email.email, "@")
         IN  IF Len(parts) = 2 THEN PyStr(parts[2]) ELSE sd
    ELSE sd

set_from_email(email) ==
    /\ Building
    /\ data' = DictSet(data, "from", PyStr(address_str(email)))
    /\ sender_domain' = from_email_domain(sender_domain, email)
    /\ ncalls' = ncalls + 1
    /\ UNCHANGED <<override, files, all_recipients, notices, error, endpoint, response,
                   status, passed>>

\* set_recipients: the field map and the side list after the call
recipients_data(d, recipient_type, emails) ==
    IF emails # <<>> THEN DictSet(d, recipient_type, PyList(address_strs(emails))) ELSE d

\* Mutant of recipients_all: the side list is assigned, not extended.
recipients_all_assigned(all, emails) ==
    IF emails # <<>> THEN emails ELSE all

recipients_all(all, emails) ==
    IF emails # <<>> THEN all \o emails ELSE all

set_recipients(recipient_type, emails) ==
    /\ Building
    /\ recipient_type \in {"to", "cc", "bcc"}
    /\ data' = recipients_data(data, recipient_type, emails)
    /\ all_recipients' = recipients_all(all_recipients, emails)
    /\ passed' = passed (+) SeqToBag(emails)
    /\ ncalls' = ncalls + 1
    /\ UNCHANGED <<override, files, sender_domain, notices, error, endpoint, response, status>>

set_subject(subject) ==
    /\ Building
    /\ data' = DictSet(data, "subject", PyStr(subject))
    /\ ncalls' = ncalls + 1
    /\ UNCHANGED <<override, files, sender_domain, all_recipients, notices, error, endpoint,
                   response, status, passed>>

set_reply_to(emails) ==
    /\ Building
    /\ data' = IF emails # <<>>
               THEN DictSet(data, "h:Reply-To", PyStr(join(address_texts(emails))))
               ELSE data
    /\ ncalls' = ncalls + 1
    /\ UNCHANGED <<override, files, sender_domain, all_recipients, notices, error, endpoint,
                   response, status, passed>>

set_extra_headers(headers) ==
    /\ Building
    /\ data' = [f \in DOMAIN data \cup {"h:" \o k : k \in DOMAIN headers} |->
                   IF \E k \in DOMAIN headers : f = "h:" \o k
                   THEN headers[CHOOSE k \in DOMAIN headers : f = "h:" \o k]
                   ELSE data[f]]
    /\ ncalls' = ncalls + 1
    /\ UNCHANGED <<override, files, sender_domain, all_recipients, notices, error, endpoint,
                   response, status, passed>>

set_text_body(body) ==
    /\ Building
    /\ data' = DictSet(data, "text", PyStr(body))
    /\ ncalls' = ncalls + 1
    /\ UNCHANGED <<override, files, sender_domain, all_recipients, notices, error, endpoint,
                   response, status, passed>>

\* self.unsupported_feature(feature): the notices after the call
unsupported_feature(n, feature) == Append(n, feature)

\* set_html_body: the notices and the field map after the call
html_body_notices(d, n) ==
    IF "html" \in DOMAIN d THEN unsupported_feature(n, "multiple html parts") ELSE n

html_body_data(d, body) == DictSet(d, "html", PyStr(body))

set_html_body(body) ==
    /\ Building
    /\ notices' = html_body_notices(data, notices)
    /\ data' = html_body_data(data, body)
    /\ ncalls' = ncalls + 1
    /\ UNCHANGED <<override, files, sender_domain, all_recipients, error, endpoint, response,
                   status, passed>>

add_attachment(attachment) ==
    /\ Building
    /\ files' = Append(files,
                       [field |-> IF attachment.inline THEN "inline" ELSE "attachment",
                        part |-> <<attachment.name, attachment.content,
                                   attachment.mimetype>>])
    /\ ncalls' = ncalls + 1
    /\ UNCHANGED <<override, data, sender_domain, all_recipients, notices, error, endpoint,
                   response, status, passed>>

\* Mutant of metadata_field: the JSON text is stored for every value.
metadata_field_json(value) ==
    LET json == serialize_json(value)
    IN  IF IsRaised(json) THEN json ELSE Returned(PyStr(json.returned))

\* set_metadata, one item: the value stored under "v:<key>", or the error
metadata_field(value) ==
    LET json == serialize_json(value)
    IN  IF IsRaised(json) THEN json
        ELSE IF startswith(json.returned, <<"\"">>) THEN Returned(value)
        ELSE Returned(PyStr(json.returned))

\* set_metadata, the loop: the field map and the error after the items
RECURSIVE metadata_loop(_, _)
metadata_loop(d, items) ==
    IF items = <<>> THEN [data |-> d, error |-> PyNone]
    ELSE LET stored == metadata_field(Head(items).value)
         IN  IF IsRaised(stored) THEN [data |-> d, error |-> stored]
             ELSE metadata_loop(DictSet(d, "v:" \o Head(items).key, stored.returned),
                                Tail(items))

set_metadata(metadata) ==
    /\ Building
    /\ data' = metadata_loop(data, metadata).data
    /\ error' = metadata_loop(data, metadata).error
    /\ ncalls' = ncalls + 1
    /\ UNCHANGED <<override, files, sender_domain, all_recipients, notices, endpoint, response,
                   status, passed>>

set_send_at(send_at) ==
    /\ Building
    /\ data' = DictSet(data, "o:deliverytime",
                       IF IsDatetime(send_at) THEN PyStr(rfc2822date(send_at))
                       ELSE send_at)
    /\ ncalls' = ncalls + 1
    /\ UNCHANGED <<override, files, sender_domain, all_recipients, notices, error, endpoint,
                   response, status, passed>>

set_tags(tags) ==
    /\ Building
    /\ data' = DictSet(data, "o:tag", PyList(tags))
    /\ ncalls' = ncalls + 1
    /\ UNCHANGED <<override, files, sender_domain, all_recipients, notices, error, endpoint,
                   response, status, passed>>

YesNo(flag) == PyStr(IF flag THEN <<"y", "e", "s">> ELSE <<"n", "o">>)

set_track_clicks(track_clicks) ==
    /\ Building
    /\ data' = DictSet(data, "o:tracking-clicks", YesNo(track_clicks))
    /\ ncalls' = ncalls + 1
    /\ UNCHANGED <<override, files, sender_domain, all_recipients, notices, error, endpoint,
                   response, status, passed>>

set_track_opens(track_opens) ==
    /\ Building
    /\ data' = DictSet(data, "o:tracking-opens", YesNo(track_opens))
    /\ ncalls' = ncalls + 1
    /\ UNCHANGED <<override, files, sender_domain, all_recipients, notices, error, endpoint,
                   response, status, passed>>

\* Mutant of esp_extra_data: sender_domain is read but not popped.
esp_extra_data_kept(d, extra) == DictUpdate(d, extra)

\* set_esp_extra: the field map and the sender domain after the call
esp_extra_data(d, extra) == DictRemove(DictUpdate(d, extra), "sender_domain")

esp_extra_domain(d, sd, extra) == DictPopValue(DictUpdate(d, extra), "sender_domain", sd)

set_esp_extra(extra) ==
    /\ Building
    /\ data' = esp_extra_data(data, extra)
    /\ sender_domain' = esp_extra_domain(data, sender_domain, extra)
    /\ override' = IF "sender_domain" \in DOMAIN extra THEN extra["sender_domain"]
                                                      ELSE override
    /\ ncalls' = ncalls + 1
    /\ UNCHANGED <<files, all_recipients, notices, error, endpoint, response,
                   status, passed>>

---------------------------------------------------------------------------
(* MailgunBackend.parse_recipient_status *)

\* self.deserialize_json_response(response, payload, message)
deserialize_json_response(resp) ==
    IF "json" \in DOMAIN resp THEN Returned(resp.json)
    ELSE Raised("AnymailRequestsAPIError", "Invalid Mailgun API response format")

\* value[key] for a text key: the item, KeyError for a dict without the key,
\* TypeError for a value that takes no text subscript.
getitem(value, key) ==
    IF IsDict(value)
    THEN IF key \in DOMAIN value.dict THEN Returned(value.dict[key])
         ELSE Raised("KeyError", key)
    ELSE Raised("TypeError", key)

\* Mutant of status_map: keyed by str(recipient) instead of recipient.email.
status_map_by_str(all, recipient_status) ==
    [e \in {address_str(all[i]) : i \in 1..Len(all)} |-> recipient_status]

\* {recipient.email: status for recipient in payload.all_recipients}
status_map(all, recipient_status) ==
    [e \in {all[i].email : i \in 1..Len(all)} |-> recipient_status]

\* Mutant of is_queued: "Queued" in mailgun_message.
is_queued_anywhere(mailgun_message) ==
    \E i \in 0..Len(mailgun_message) :
        startswith(SubSeq(mailgun_message, i + 1, Len(mailgun_message)), Queued)

\* mailgun_message.startswith("Queued")
is_queued(mailgun_message) == startswith(mailgun_message, Queued)

recipient_status(resp, all) ==
    LET parsed_response == deserialize_json_response(resp)
    IN  IF IsRaised(parsed_response) THEN parsed_response
        ELSE LET message_id == getitem(parsed_response.returned, "id")
                 mailgun_message == getitem(parsed_response.returned, "message")
             IN  IF IsRaised(message_id) \/ IsRaised(mailgun_message)
                 THEN Raised("AnymailRequestsAPIError",
                             "Invalid Mailgun API response format")
                 ELSE IF ~IsStr(mailgun_message.returned)
                 THEN Raised("AttributeError", "startswith")
                 ELSE IF ~is_queued(mailgun_message.returned.str)
                 THEN Raised("AnymailRequestsAPIError",
                             "Unrecognized Mailgun API message")
                 ELSE Returned(status_map(all, [message_id |-> message_id.returned,
                                                status |-> "queued"]))

parse_recipient_status(resp) ==
    /\ error = PyNone
    /\ status = NotCalled
    /\ response' = resp
    /\ status' = recipient_status(resp, all_recipients)
    /\ UNCHANGED <<override, data, files, sender_domain, all_recipients, notices, error,
                   endpoint, passed, ncalls>>

---------------------------------------------------------------------------
(* Specifications *)

\* Building a payload and computing its endpoint.
Next ==
    \/ \E email \in FromEmails : set_from_email(email)
    \/ \E t \in RecipientTypes, emails \in RecipientLists : set_recipients(t, emails)
    \/ \E subject \in Subjects : set_subject(subject)
    \/ \E emails \in ReplyTos : set_reply_to(emails)
    \/ \E headers \in Headers : set_extra_headers(headers)
    \/ \E body \in Bodies : set_text_body(body)
    \/ \E body \in Bodies : set_html_body(body)
    \/ \E attachment \in Attachments : add_attachment(attachment)
    \/ \E metadata \in Metadatas : set_metadata(metadata)
    \/ \E send_at \in SendAts : set_send_at(send_at)
    \/ \E tags \in Tags : set_tags(tags)
    \/ \E flag \in BOOLEAN : set_track_clicks(flag)
    \/ \E flag \in BOOLEAN : set_track_opens(flag)
    \/ \E extra \in EspExtras : set_esp_extra(extra)
    \/ get_api_endpoint

Spec == Init /\ [][Next]_vars

\* Setting the recipients of a payload and parsing the response to its send.
NextParse ==
    \/ \E t \in RecipientTypes, emails \in RecipientLists : set_recipients(t, emails)
    \/ \E resp \in Responses : parse_recipient_status(resp)

SpecParse == Init /\ [][NextParse]_vars

---------------------------------------------------------------------------
(* Claims about parse_recipient_status (checked under SpecParse) *)

Parsed == status # NotCalled

\* The response deserialized to an object that has the key k.
HasKey(k) ==
    /\ "json" \in DOMAIN response
    /\ IsDict(response.json)
    /\ k \in DOMAIN response.json.dict

\* The response's `message` is a text.
HasMessageText == HasKey("message") /\ IsStr(response.json.dict["message"])

MessageText == response.json.dict["message"].str

\* The text begins with the six characters Q, u, e, u, e, d.
BeginsQueued(text) ==
    /\ Len(text) >= 6
    /\ SubSeq(text, 1, 6) = <<"Q", "u", "e", "u", "e", "d">>

RecipientEmails == { all_recipients[i].email : i \in 1..Len(all_recipients) }

UnrecognizedMessage ==
    /\ IsRaised(status)
    /\ status.raised = "AnymailRequestsAPIError"
    /\ status.message = "Unrecognized Mailgun API message"

InvalidFormat ==
    /\ IsRaised(status)
    /\ status.raised = "AnymailRequestsAPIError"
    /\ status.message = "Invalid Mailgun API response format"

\* C1: when the response is an object with the keys `id` and `message` and
\* the message text starts with "Queued", the call returns a map whose keys
\* are exactly the plain email strings of all_recipients, and every entry
\* holds the response's id as message_id and the status "queued".
C1_QueuedForEveryRecipient ==
    (Parsed /\ HasKey("id") /\ HasMessageText /\ BeginsQueued(MessageText)) =>
        /\ IsReturned(status)
        /\ DOMAIN status.returned = RecipientEmails
        /\ \A e \in RecipientEmails :
               status.returned[e] = [message_id |-> response.json.dict["id"],
                                     status |-> "queued"]

\* Three addresses were recorded, one of them twice and one with a display
\* name, and the map returned has the two entries.
C1_Witness ==
    /\ IsReturned(status)
    /\ Len(all_recipients) = 3
    /\ Cardinality(DOMAIN status.returned) = 2
    /\ \E i \in 1..3 : all_recipients[i].name # <<>>
    /\ response.json.dict["id"] = MsgId

\* C2 as stated: every response whose message text does not start with
\* "Queued" fails with the unrecognized-message error.
C2_Original ==
    (Parsed /\ HasMessageText /\ ~BeginsQueued(MessageText)) => UnrecognizedMessage

\* C2 as amended: every response that is an object with both keys `id` and
\* `message`, whose message text does not start with "Queued", fails with
\* the unrecognized-message error and returns no map, whatever the
\* recipients are; and a map that is returned holds only "queued" rows.
C2_UnrecognizedMessage ==
    /\ (Parsed /\ HasKey("id") /\ HasMessageText /\ ~BeginsQueued(MessageText)) =>
           UnrecognizedMessage
    /\ IsReturned(status) =>
           \A e \in DOMAIN status.returned : status.returned[e].status = "queued"

\* A response holding "Queued" after its first character was refused, with
\* recipients recorded on the payload.
C2_Witness ==
    /\ UnrecognizedMessage
    /\ all_recipients # <<>>
    /\ MessageText = <<"x">> \o Queued

\* C3: a response that lacks `id` or `message`, or whose `id` or `message`
\* is not a text, fails with the invalid-response-format error.
C3_InvalidFormat ==
    (/\ Parsed
     /\ "json" \in DOMAIN response
     /\ \/ ~HasKey("id")
        \/ ~HasKey("message")
        \/ ~IsStr(response.json.dict["id"])
        \/ ~IsStr(response.json.dict["message"])) => InvalidFormat

---------------------------------------------------------------------------
(* Claims about MailgunPayload (checked under Spec) *)

\* C4: a second set_html_body raises nothing, records the
\* unsupported-feature notice, and leaves `html` holding the first body.
C4_SecondHtmlBodyKeepsFirst ==
    [][\A body \in Bodies :
          (set_html_body(body) /\ "html" \in DOMAIN data) =>
              /\ error' = PyNone
              /\ notices' = Append(notices, "multiple html parts")
              /\ data'["html"] = data["html"]]_vars

\* C5: `sender_domain` is never a key of data; and a set_esp_extra that
\* carries sender_domain = d (a text), called after set_from_email, makes d
\* the sender domain, for which get_api_endpoint returns "d/messages".
C5_SenderDomainOverride ==
    /\ []("sender_domain" \notin DOMAIN data)
    /\ [][\A extra \in EspExtras :
             (/\ set_esp_extra(extra)
              /\ "from" \in DOMAIN data
              /\ "sender_domain" \in DOMAIN extra) =>
                 sender_domain' = extra["sender_domain"]]_vars
    /\ [][(get_api_endpoint /\ IsStr(sender_domain)) =>
             endpoint' = Returned(PyStr(sender_domain.str \o SlashMessages))]_vars

\* from "a@x", then the override "o": the endpoint is "o/messages".
C5_Witness ==
    /\ "from" \in DOMAIN data
    /\ data["from"] = PyStr(<<"a", "@", "x">>)
    /\ override = PyStr(<<"o">>)
    /\ sender_domain = PyStr(<<"o">>)
    /\ endpoint = Returned(PyStr(<<"o", "/", "m", "e", "s", "s", "a", "g", "e", "s">>))

\* C6: once get_api_endpoint was called, either the sender domain is a
\* non-empty text and the endpoint is "<sender_domain>/messages", or the
\* call failed with the configuration error.
C6_EndpointNeverFromEmptyDomain ==
    endpoint # NotCalled =>
        \/ /\ IsStr(sender_domain)
           /\ sender_domain.str # <<>>
           /\ endpoint = Returned(PyStr(sender_domain.str \o SlashMessages))
        \/ /\ IsRaised(endpoint)
           /\ endpoint.raised = "AnymailError"

\* The address has exactly one "@", at position i.
OnlyAt(email, i) ==
    /\ i \in 1..Len(email)
    /\ email[i] = "@"
    /\ \A j \in 1..Len(email) : email[j] = "@" => j = i

NoAt(email) == \A j \in 1..Len(email) : email[j] # "@"

\* C7: while the sender domain is unset (as on a fresh payload),
\* set_from_email with local@domain sets the sender domain to domain, and
\* with an address without "@" raises nothing and leaves it unset;
\* get_api_endpoint returns "domain/messages" for a sender domain, and fails
\* with the configuration error while the sender domain is unset.
C7_DomainFromFromEmail ==
    /\ [][\A email \in FromEmails :
             (set_from_email(email) /\ sender_domain = PyNone) =>
                 /\ error' = PyNone
                 /\ \A i \in 1..Len(email.email) :
                        OnlyAt(email.email, i) =>
                            sender_domain' =
                                PyStr(SubSeq(email.email, i + 1, Len(email.email)))
                 /\ NoAt(email.email) => sender_domain' = PyNone]_vars
    /\ [](endpoint # NotCalled =>
             IF sender_domain = PyNone
             THEN IsRaised(endpoint) /\ endpoint.raised = "AnymailError"
             ELSE endpoint = Returned(PyStr(sender_domain.str \o SlashMessages)))

\* from "a" alone on the payload: no sender domain, and the endpoint fails.
C7_Witness ==
    /\ data = [k \in {"from"} |-> PyStr(<<"a">>)]
    /\ sender_domain = PyNone
    /\ IsRaised(endpoint)

\* C8: all_recipients holds exactly the addresses passed to set_recipients,
\* each as many times as it was passed; a call with an empty list changes
\* neither all_recipients nor data.
C8_AllRecipientsExact ==
    /\ [](SeqToBag(all_recipients) = passed)
    /\ [][\A t \in RecipientTypes :
             set_recipients(t, <<>>) => UNCHANGED <<all_recipients, data>>]_vars

\* Three addresses were passed over three calls, one of them twice.
C8_Witness ==
    /\ BagCardinality(passed) = 3
    /\ \E r \in Recipients : CopiesIn(r, passed) = 2
    /\ {"to", "cc", "bcc"} \subseteq DOMAIN data
    /\ Len(all_recipients) = 3

\* C9: for every item k, v of the metadata that set_metadata reaches, the
\* field "v:k" holds v itself when v is a text, and the JSON text of v
\* otherwise: "hi" is stored as hi, 42 as 42, {"a": 1} as {"a":1}.
C9_MetadataStored ==
    [][\A metadata \in Metadatas :
          set_metadata(metadata) =>
              \A i \in 1..Len(metadata) :
                  (\A j \in 1..i : serializable(metadata[j].value)) =>
                      LET v == metadata[i].value
                          stored == data'["v:" \o metadata[i].key]
                      IN  /\ IsStr(v) => stored = v
                          /\ ~IsStr(v) => stored = PyStr(json_dumps(v))
                          /\ v = PyStr(<<"h", "i">>) => stored.str = <<"h", "i">>
                          /\ v = PyInt(42) => stored.str = <<"4", "2">>
                          /\ v = PyDict([k \in {"a"} |-> PyInt(1)]) =>
                                 stored.str = <<"{", "\"", "a", "\"", ":", "1", "}">>]_vars

\* A text and a number were stored by one call.
C9_Witness ==
    /\ {"v:k", "v:j"} \subseteq DOMAIN data
    /\ data["v:k"] = PyStr(<<"h", "i">>)
    /\ data["v:j"] = PyStr(<<"4", "2">>)

\* C10: once set_esp_extra gave a sender domain d (a text), the sender
\* domain is d whether set_from_email was called before or is called after;
\* set_from_email leaves a sender domain that is set unchanged, and
\* set_esp_extra without `sender_domain` leaves the sender domain unchanged.
C10_OverrideOrderIndependent ==
    /\ [](override # PyNone => sender_domain = override)
    /\ [][\A email \in FromEmails :
             (set_from_email(email) /\ sender_domain # PyNone) =>
                 sender_domain' = sender_domain]_vars
    /\ [][\A extra \in EspExtras :
             (set_esp_extra(extra) /\ "sender_domain" \notin DOMAIN extra) =>
                 sender_domain' = sender_domain]_vars

\* The override "o" and the from-address "a@x" were both given, and a
\* third call followed.
C10_Witness ==
    /\ override = PyStr(<<"o">>)
    /\ "from" \in DOMAIN data
    /\ data["from"] = PyStr(<<"a", "@", "x">>)
    /\ sender_domain = PyStr(<<"o">>)
    /\ ncalls = 3

====
